---- MODULE Spec2Model ----
(***************************************************************************)
(* A model of the gosql lexer: the driver lex, its five scanners           *)
(* (lexKeyword, lexSymbol, lexString, lexNumeric, lexIdentifier), the      *)
(* delimited scan lexCharacterDelimited and longestMatch.                  *)
(*                                                                         *)
(* A source string is a sequence of one-byte strings; the Go index         *)
(* source[p] (0-based) is At(source, p).  A cursor is the record           *)
(* [pointer, loc: [Line, Col]].  A scanner returns [token, cur, ok] where  *)
(* token is <<>> for Go's nil and <<t>> for a token t.                     *)
(***************************************************************************)
EXTENDS Integers, Sequences, FiniteSets, TLC

VARIABLES
    source,     \* lex: the input string
    cur,        \* lex: the driver's cursor
    tokens,     \* lex: the accumulated token sequence
    li,         \* lex: index (1..5) of the scanner tried next at cur
    pc,         \* lex: "scan", "done" (returned tokens, nil), "error", "panic";
                \* longestMatch run on its own: "lm", "lm_done"
    ret,        \* lex: the returned token sequence (<<>> on error: Go's nil)
    errLoc,     \* lex: the (Line, Col) formatted into the error, <<>> if none
    last,       \* the last scanner application: [lexer, ok, ic, cur, token]
    options,    \* longestMatch: the candidate list
    lm          \* longestMatch: the loop state [pointer, value, skipList, match, brk, panic]

vars == <<source, cur, tokens, li, pc, ret, errLoc, last, options, lm>>

----------------------------------------------------------------------------
(* Bytes *)

UpperLetters == <<"A","B","C","D","E","F","G","H","I","J","K","L","M",
                  "N","O","P","Q","R","S","T","U","V","W","X","Y","Z">>
LowerLetters == <<"a","b","c","d","e","f","g","h","i","j","k","l","m",
                  "n","o","p","q","r","s","t","u","v","w","x","y","z">>
Range(s) == {s[i] : i \in 1..Len(s)}

\* c >= 'A' && c <= 'Z' || c >= 'a' && c <= 'z'
IsAlphabetical(c) == c \in Range(UpperLetters) \/ c \in Range(LowerLetters)
\* c >= '0' && c <= '9'
IsDigit(c) == c \in {"0","1","2","3","4","5","6","7","8","9"}
IsPeriod(c) == c = "."
IsExpMarker(c) == c = "e"
\* IsSign without the plus sign
IsSignMinusOnly(c) == c = "-"
IsSign(c) == c = "-" \/ c = "+"

\* strings.ToLower of one ASCII byte
ToLowerByte(c) ==
    IF \E i \in 1..26 : UpperLetters[i] = c
    THEN LowerLetters[CHOOSE i \in 1..26 : UpperLetters[i] = c]
    ELSE c
ToLower(s) == [i \in 1..Len(s) |-> ToLowerByte(s[i])]

\* Go evaluates an argument once and passes its value: in
\* {F(x) : x \in {e}} the expression e is evaluated once, however often F
\* uses x, and The picks the one result
The(S) == CHOOSE x \in S : TRUE

\* source[p] with a 0-based index p
At(s, p) == s[p + 1]
\* s[a:b] with 0-based bounds
Slice(s, a, b) == SubSeq(s, a + 1, b)

----------------------------------------------------------------------------
(* Program constants *)

SelectKeyword == <<"s","e","l","e","c","t">>
FromKeyword   == <<"f","r","o","m">>
AsKeyword     == <<"a","s">>
TableKeyword  == <<"t","a","b","l","e">>
CreateKeyword == <<"c","r","e","a","t","e">>
InsertKeyword == <<"i","n","s","e","r","t">>
IntoKeyword   == <<"i","n","t","o">>
ValuesKeyword == <<"v","a","l","u","e","s">>
IntKeyword    == <<"i","n","t">>
TextKeyword   == <<"t","e","x","t">>
WhereKeyword  == <<"w","h","e","r","e">>

SemicolonSymbol  == <<";">>
AsteriskSymbol   == <<"*">>
CommaSymbol      == <<",">>
LeftParenSymbol  == <<"(">>
RightParenSymbol == <<")">>
ConcatSymbol     == <<"|","|">>

KeywordKind    == 0
SymbolKind     == 1
IdentifierKind == 2
StringKind     == 3
NumericKind    == 4
BoolKind       == 5

\* cursor{}
ZeroCursor == [pointer |-> 0, loc |-> [Line |-> 0, Col |-> 0]]

Token(value, kind, loc) == [Value |-> value, Kind |-> kind, Loc |-> loc]
\* (*Token).equals
equals(t, other) == t.Value = other.Value /\ t.Kind = other.Kind

\* cur.pointer++ / cur.loc.Col++
IncPointer(c) == [c EXCEPT !.pointer = @ + 1]
IncCol(c) == [c EXCEPT !.loc.Col = @ + 1]

\* What a scanner returns: (nil, ic, false), (token or nil, cur, true), or a
\* run-time panic (index or slice bound out of range)
\* NoMatch that hands back a cursor the failed scan had already moved
NoMatchMoved(ic) ==
    [token |-> <<>>, cur |-> IncCol(IncPointer(ic)), ok |-> FALSE, panic |-> FALSE]

NoMatch(ic) == [token |-> <<>>, cur |-> ic, ok |-> FALSE, panic |-> FALSE]
Match(tok, c) == [token |-> tok, cur |-> c, ok |-> TRUE, panic |-> FALSE]
Panic(ic) == [token |-> <<>>, cur |-> ic, ok |-> FALSE, panic |-> TRUE]


----------------------------------------------------------------------------
(* longestMatch *)

\* The state of the loop before its first iteration (lines 304-308)
LMStart(ic) ==
    [pointer |-> ic.pointer, value |-> <<>>, skipList |-> <<>>,
     match |-> <<>>, brk |-> FALSE, panic |-> FALSE]

\* IsLonger that keeps the first match found
IsLongerFirstOnly(option, match) == Len(match) = 0

\* len(option) > len(match)
IsLonger(option, match) == Len(option) > Len(match)

\* SkipOnMatch that keeps an exactly matched candidate in the running
SkipOnMatchKeep(skipList, i) == skipList

\* Line 323: a candidate equal to the bytes read so far is eliminated
SkipOnMatch(skipList, i) == Append(skipList, i)

\* One pass of the inner loop body for options[i] (1-based), lines 315-335.
\* st.pointer is already advanced and st.value already extended.
LMOption(opts, ic, st, i) ==
    LET option == opts[i]
        k == st.pointer - ic.pointer
    IN  IF st.panic \/ (\E j \in 1..Len(st.skipList) : st.skipList[j] = i)
        THEN st
        ELSE IF option = st.value
        THEN [st EXCEPT !.skipList = SkipOnMatch(@, i),
                        !.match = IF IsLonger(option, @) THEN option ELSE @]
        ELSE IF k > Len(option)
        THEN [st EXCEPT !.panic = TRUE]          \* option[:k] out of range
        ELSE LET sharesPrefix == st.value = Slice(option, 0, k)
                 tooLong == Len(st.value) > Len(option)
             IN  IF tooLong \/ ~sharesPrefix
                 THEN [st EXCEPT !.skipList = Append(@, i)]
                 ELSE st

RECURSIVE LMOptions(_, _, _, _)
\* for i, option := range options, from index i on
LMOptions(opts, ic, st, i) ==
    IF i > Len(opts) THEN st
    ELSE The({LMOptions(opts, ic, st1, i + 1) : st1 \in {LMOption(opts, ic, st, i)}})

\* One iteration of the outer loop, lines 310-340
LMIter(src, ic, opts, st) ==
    LET st1 == [st EXCEPT !.value = Append(@, ToLowerByte(At(src, st.pointer))),
                          !.pointer = @ + 1]
        st2 == LMOptions(opts, ic, st1, 1)
    IN  [st2 EXCEPT !.brk = Len(st2.skipList) = Len(opts)]

RECURSIVE LMLoop(_, _, _, _)
LMLoop(src, ic, opts, st) ==
    IF st.panic \/ st.brk \/ ~(st.pointer < Len(src)) THEN st
    ELSE The({LMLoop(src, ic, opts, st1) : st1 \in {LMIter(src, ic, opts, st)}})

\* longestMatch(source, ic, options): the final loop state; .match is returned
longestMatch(src, ic, opts) == LMLoop(src, ic, opts, LMStart(ic))

----------------------------------------------------------------------------
(* lexKeyword, lexSymbol *)

\* keywords with the declared keywords as and int wired in
keywordsAll ==
    <<SelectKeyword, InsertKeyword, ValuesKeyword, TableKeyword, CreateKeyword,
      WhereKeyword, FromKeyword, IntoKeyword, TextKeyword, AsKeyword, IntKeyword>>

keywords == <<SelectKeyword, InsertKeyword, ValuesKeyword, TableKeyword,
              CreateKeyword, WhereKeyword, FromKeyword, IntoKeyword, TextKeyword>>

symbols == <<CommaSymbol, LeftParenSymbol, RightParenSymbol,
             SemicolonSymbol, AsteriskSymbol>>

\* cur.pointer = ic.pointer + len(match); cur.loc.Col = ic.loc.Col + len(match)
AfterMatch(c, ic, match) ==
    [c EXCEPT !.pointer = ic.pointer + Len(match),
              !.loc.Col = ic.loc.Col + Len(match)]

lexKeyword(src, ic) ==
    LET r == longestMatch(src, ic, keywords)
    IN  IF r.panic THEN Panic(ic)
        ELSE IF r.match = <<>> THEN NoMatch(ic)
        ELSE Match(<<Token(r.match, KeywordKind, ic.loc)>>,
                   AfterMatch(ic, ic, r.match))

\* SkipNewline that steps back onto the newline
SkipNewlineNoAdvance(c) == [c EXCEPT !.pointer = @ - 1, !.loc.Col = 0]

\* SkipNewline without the column reset
SkipNewlineKeepCol(c) == [c EXCEPT !.loc.Line = @ + 1]

\* case '\n': cur.loc.Line++; cur.loc.Col = 0
SkipNewline(c) == [c EXCEPT !.loc.Line = @ + 1, !.loc.Col = 0]

lexSymbol(src, ic) ==
    LET c == At(src, ic.pointer)
        c1 == IncCol(IncPointer(ic))
    IN  IF c = "\n" THEN Match(<<>>, SkipNewline(c1))
        ELSE IF c = "\t" \/ c = " " THEN Match(<<>>, c1)
        ELSE LET r == longestMatch(src, ic, symbols)
             IN  IF r.panic THEN Panic(ic)
                 ELSE IF r.match = <<>> THEN NoMatch(ic)
                 ELSE Match(<<Token(r.match, SymbolKind, ic.loc)>>,
                            AfterMatch(c1, ic, r.match))

----------------------------------------------------------------------------
(* lexNumeric *)

\* Lines 153-162: after the loop
NumericEnd(src, ic, c) ==
    IF c.pointer = ic.pointer THEN NoMatch(ic)
    ELSE Match(<<Token(Slice(src, ic.pointer, c.pointer), NumericKind, ic.loc)>>, c)

\* Line 136: the exponent marker is the last byte of the source
ExpMarkerAtEnd(src, c) == c.pointer = Len(src) - 1

\* Lines 140-144: a sign directly after the exponent marker is consumed
SkipSign(src, c) ==
    IF IsSign(At(src, c.pointer + 1)) THEN IncCol(IncPointer(c)) ELSE c

RECURSIVE NumericLoop(_, _, _, _, _)
\* for ; cur.pointer < len(source); cur.pointer++ { ... }, entered with cursor c0
NumericLoop(src, ic, c0, periodFound, expMarkerFound) ==
    IF ~(c0.pointer < Len(src)) THEN NumericEnd(src, ic, c0)
    ELSE
    LET c == At(src, c0.pointer)
        c1 == IncCol(c0)                          \* line 103
    IN  IF c1.pointer = ic.pointer
        THEN IF ~IsDigit(c) /\ ~IsPeriod(c) THEN NoMatch(ic)
             ELSE NumericLoop(src, ic, IncPointer(c1), IsPeriod(c), expMarkerFound)
        ELSE IF IsPeriod(c)
        THEN IF periodFound THEN NoMatch(ic)
             ELSE NumericLoop(src, ic, IncPointer(c1), TRUE, expMarkerFound)
        ELSE IF IsExpMarker(c)
        THEN IF expMarkerFound THEN NoMatch(ic)
             ELSE IF ExpMarkerAtEnd(src, c1) THEN NoMatch(ic)
             ELSE NumericLoop(src, ic, IncPointer(SkipSign(src, c1)), TRUE, TRUE)
        ELSE IF ~IsDigit(c) THEN NumericEnd(src, ic, c1)            \* break
        ELSE NumericLoop(src, ic, IncPointer(c1), periodFound, expMarkerFound)

lexNumeric(src, ic) == NumericLoop(src, ic, ic, FALSE, FALSE)

----------------------------------------------------------------------------
(* lexCharacterDelimited, lexString *)

\* Line 191: the delimiter at c is not followed by a second delimiter
IsClosing(src, c, delimiter) ==
    c.pointer + 1 >= Len(src) \/ At(src, c.pointer + 1) # delimiter

\* DelimitedMatch that returns the cursor it was given
DelimitedMatchStay(ic, c, value) == Match(<<Token(value, StringKind, ic.loc)>>, ic)

\* Lines 192-196: what is returned at the closing delimiter
DelimitedMatch(ic, c, value) == Match(<<Token(value, StringKind, ic.loc)>>, c)

\* Lines 198-200, then 203-204: a doubled delimiter at c
DelimitedEscape(c, value, delimiter) ==
    [cur |-> IncCol(IncCol(IncPointer(c))),
     value |-> Append(Append(value, delimiter), delimiter)]

\* Lines 203-204: any other byte
DelimitedByte(c, value, b) == [cur |-> IncCol(c), value |-> Append(value, b)]

RECURSIVE DelimitedLoop(_, _, _, _, _)
\* for ; cur.pointer < len(source); cur.pointer++ { ... }, entered with cursor c0
DelimitedLoop(src, ic, delimiter, c0, value) ==
    IF ~(c0.pointer < Len(src)) THEN NoMatch(ic)
    ELSE
    LET c == At(src, c0.pointer)
    IN  IF c = delimiter /\ IsClosing(src, c0, delimiter)
        THEN DelimitedMatch(ic, c0, value)
        ELSE The({DelimitedLoop(src, ic, delimiter, IncPointer(n.cur), n.value) :
                  n \in {IF c = delimiter THEN DelimitedEscape(c0, value, delimiter)
                         ELSE DelimitedByte(c0, value, c)}})

lexCharacterDelimited(src, ic, delimiter) ==
    IF Len(src) - ic.pointer = 0 THEN NoMatch(ic)
    ELSE IF At(src, ic.pointer) # delimiter THEN NoMatch(ic)
    ELSE DelimitedLoop(src, ic, delimiter, IncPointer(IncCol(ic)), <<>>)

lexString(src, ic) == lexCharacterDelimited(src, ic, "'")

----------------------------------------------------------------------------
(* lexIdentifier *)

\* IsIdentifierByte without the dollar sign
IsIdentifierByteNoDollar(c) == IsAlphabetical(c) \/ IsDigit(c) \/ c = "_"

\* Line 373
IsIdentifierByte(c) == IsAlphabetical(c) \/ IsDigit(c) \/ c = "$" \/ c = "_"

RECURSIVE IdentifierLoop(_, _, _)
\* for ; cur.pointer < len(source); cur.pointer++ { ... }: the cursor and value
\* at the end of the loop
IdentifierLoop(src, c0, value) ==
    IF ~(c0.pointer < Len(src)) THEN [cur |-> c0, value |-> value]
    ELSE LET c == At(src, c0.pointer)
         IN  IF IsIdentifierByte(c)
             THEN IdentifierLoop(src, IncPointer(IncCol(c0)), Append(value, c))
             ELSE [cur |-> c0, value |-> value]

\* Lines 350-352: the double-quoted branch returns the delimited scan's result
QuotedIdentifier(r) == Match(r.token, r.cur)

lexIdentifier(src, ic) ==
    LET q == lexCharacterDelimited(src, ic, "\"")
    IN  IF q.ok THEN QuotedIdentifier(q)
        ELSE
        LET c == At(src, ic.pointer)
        IN  IF ~IsAlphabetical(c) THEN NoMatch(ic)
            ELSE LET e == IdentifierLoop(src, IncCol(IncPointer(ic)), <<c>>)
                 IN  IF Len(e.value) = 0 THEN NoMatch(ic)
                     ELSE Match(<<Token(ToLower(e.value), IdentifierKind, ic.loc)>>,
                                e.cur)

----------------------------------------------------------------------------
(* lex *)

\* lexers := []lexer{lexKeyword, lexSymbol, lexString, lexNumeric, lexIdentifier}
lexers == <<"lexKeyword", "lexSymbol", "lexString", "lexNumeric", "lexIdentifier">>

\* l(source, cur) for l = lexers[i]
CallLexer(i, src, c) ==
    CASE i = 1 -> lexKeyword(src, c)
      [] i = 2 -> lexSymbol(src, c)
      [] i = 3 -> lexString(src, c)
      [] i = 4 -> lexNumeric(src, c)
      [] i = 5 -> lexIdentifier(src, c)

\* The (line, column) the error message is formatted with (line 90)
ErrorLocation(c) == <<c.loc.Line, c.loc.Col>>

RECURSIVE FirstMatch(_, _, _)
\* for _, l := range lexers: the result of the first scanner that matches
FirstMatch(src, c, i) ==
    IF i > Len(lexers) THEN NoMatch(c)
    ELSE LET r == CallLexer(i, src, c)
         IN  IF r.ok \/ r.panic THEN r ELSE FirstMatch(src, c, i + 1)

RECURSIVE LexFrom(_, _, _)
\* The loop of lex from cursor c with toks accumulated: what lex returns
LexFrom(src, c, toks) ==
    IF ~(c.pointer < Len(src))
    THEN [ok |-> TRUE, tokens |-> toks, err |-> <<>>]
    ELSE LET r == FirstMatch(src, c, 1)
         IN  IF r.panic THEN [ok |-> FALSE, tokens |-> <<>>, err |-> <<"panic">>]
             ELSE IF r.ok THEN LexFrom(src, r.cur, toks \o r.token)
             ELSE [ok |-> FALSE, tokens |-> <<>>, err |-> ErrorLocation(c)]

\* lex(source) as a function of the source
lex(src) == LexFrom(src, ZeroCursor, <<>>)

----------------------------------------------------------------------------
(* Inputs *)

MaxLen == 4
MaxToks == 2
MaxLMLen == 4
MaxLiveLen == 2

Alphabet == {"'", "\"", "A", "e", "1", ".", "+", " ", "\n", ","}

RandomSources == UNION {[1..n -> Alphabet] : n \in 0..MaxLen}

\* Inputs that exercise the keywords, the symbols and longer literals
Examples ==
    { <<"i","n","t","o">>, <<"I","n","T","o">>, <<"I","N","T","O">>,
      <<"i","n","t">>, <<"a","s">>, <<"i","n","t","o","o">>,
      <<"S","E","L","E","C","T">>, <<"s","e","l","e","c","t">>,
      <<"s","e","l","e","c","t","i","o","n">>,
      <<"F","o","o">>, <<"f","_","1","$","Z",";">>,
      <<"\"","F","o","o","\"">>, <<"\"","F","o","o">>,
      <<"'","i","t","'","'","s","'">>, <<"'","a","b","c">>, <<"'","a","b","c","'">>,
      <<"'","a","'"," ","'","b","'">>, <<"1"," ","'","a">>, <<"\n","1","\n","'","a">>,
      <<"'","\n","'","'">>,
      <<"1",".","5","e","-","1","0">>, <<"1",".","2",".","3">>, <<"1","e">>,
      <<"1","e","5","e">>, <<"1","e","5",".">>, <<"1","e","+"," ">>, <<"1","e","\t">>,
      <<" ","\t","\n"," ","\n","\t">>, <<"\n">>,
      <<"a","|","|","b">>, <<"'","a","'"," ","|">>, <<"'","|","'">>, <<"|">>,
      <<"i","n","t"," ","a","s">>, <<"a","\n","b"," ","|">>, <<"1","2","\n"," ","|">>,
      <<"(","*",",",")",";">>,
      <<"s","e","l","e","c","t"," ","*"," ","f","r","o","m"," ","t",";">>,
      <<"i","n","s","e","r","t"," ","i","n","t","o"," ","t"," ",
        "v","a","l","u","e","s","(","1",",","2",")">>,
      <<"c","r","e","a","t","e"," ","t","a","b","l","e"," ","t","(","a"," ",
        "t","e","x","t",")">>,
      <<"w","h","e","r","e">> }

\* Well-formed tokens: a keyword, a symbol, a bare identifier, a double-quoted
\* identifier, numeric literals, single-quoted strings
WellFormedTokens ==
    { IntoKeyword, CommaSymbol, <<"A","b">>, <<"\"","A","b","\"">>,
      <<"1","2">>, <<"1",".","5","e","-","1","0">>,
      <<"'","a"," ","b","'">>, <<"'","i","t","'","'","s","'">> }

RECURSIVE JoinSpaces(_)
\* The strings of a sequence joined by single spaces
JoinSpaces(ss) ==
    IF Len(ss) = 0 THEN <<>>
    ELSE IF Len(ss) = 1 THEN ss[1]
    ELSE ss[1] \o <<" ">> \o JoinSpaces(Tail(ss))

TokenLists == UNION {[1..n -> WellFormedTokens] : n \in 1..MaxToks}
WellFormedSources == {JoinSpaces(ts) : ts \in TokenLists}

Sources == RandomSources \cup Examples \cup WellFormedSources

\* longestMatch on its own: sources, start positions and candidate lists
LMAlphabet == {"i", "N", "t", "o"}
LMSources == UNION {[1..n -> LMAlphabet] : n \in 1..MaxLMLen}
LMOptionLists ==
    { <<IntKeyword, IntoKeyword>>, <<IntoKeyword, IntKeyword>>,
      <<<<"i">>, <<"i","n">>, IntKeyword>>, <<<<"t","o">>, <<"t">>, <<"o">>>>,
      <<IntoKeyword>>, <<<<"o","n">>, <<"n","o">>, <<"n","o","t">>>>,
      <<<<"i","n">>, <<"o","n">>, <<"o","n","t","o">>, IntoKeyword>>,
      <<<<"n">>, <<"i","n","n">>, <<"t","i","n","t">>>>,
      <<>> }

----------------------------------------------------------------------------
(* The state machine *)

NoCall == [lexer |-> "none", ok |-> FALSE, ic |-> ZeroCursor, cur |-> ZeroCursor,
           token |-> <<>>]

InitLex ==
    /\ source \in Sources
    /\ cur = ZeroCursor
    /\ tokens = <<>>
    /\ li = 1
    /\ pc = "scan"
    /\ ret = <<>>
    /\ errLoc = <<>>
    /\ last = NoCall
    /\ options = <<>>
    /\ lm = LMStart(ZeroCursor)

InitLongestMatch ==
    /\ source \in LMSources
    /\ \E p \in 0..(Len(source) - 1) : cur = [ZeroCursor EXCEPT !.pointer = p]
    /\ options \in LMOptionLists
    /\ lm = LMStart(cur)
    /\ tokens = <<>>
    /\ li = 1
    /\ pc = "lm"
    /\ ret = <<>>
    /\ errLoc = <<>>
    /\ last = NoCall

Init == InitLex \/ InitLongestMatch

\* Restart that goes on with the scanner after lexers[i]
RestartAtNext(i) == i + 1

\* Line 83, continue lex: after lexers[i] matched, the index of the scanner the
\* driver calls next
Restart(i) == 1

\* Lines 78-84: what the driver does with the result r of the scanner name
Apply(name, r) ==
    /\ last' = [lexer |-> name, ok |-> r.ok, ic |-> cur, cur |-> r.cur,
                token |-> r.token]
    /\ IF r.panic
       THEN /\ pc' = "panic"
            /\ UNCHANGED <<cur, tokens, li>>
       ELSE IF r.ok
       THEN /\ cur' = r.cur
            /\ tokens' = tokens \o r.token
            /\ li' = Restart(li)
            /\ pc' = pc
       ELSE /\ li' = li + 1
            /\ UNCHANGED <<cur, tokens, pc>>
    /\ UNCHANGED <<source, ret, errLoc, options, lm>>

\* The driver is inside the loop, about to call lexers[i]
AtLexer(i) == pc = "scan" /\ cur.pointer < Len(source) /\ li = i

TryKeyword ==
    /\ AtLexer(1)
    /\ \E r \in {lexKeyword(source, cur)} : Apply(lexers[1], r)

TrySymbol ==
    /\ AtLexer(2)
    /\ \E r \in {lexSymbol(source, cur)} : Apply(lexers[2], r)

TryString ==
    /\ AtLexer(3)
    /\ \E r \in {lexString(source, cur)} : Apply(lexers[3], r)

TryNumeric ==
    /\ AtLexer(4)
    /\ \E r \in {lexNumeric(source, cur)} : Apply(lexers[4], r)

TryIdentifier ==
    /\ AtLexer(5)
    /\ \E r \in {lexIdentifier(source, cur)} : Apply(lexers[5], r)

\* ErrorResult that hands out the tokens lexed so far
ErrorResultPartial(toks) == toks

\* Line 90, return nil, fmt.Errorf(...): the token sequence returned with an error
ErrorResult(toks) == <<>>

\* Lines 86-90: no scanner matched at cur
LexError ==
    /\ pc = "scan"
    /\ li = Len(lexers) + 1
    /\ pc' = "error"
    /\ ret' = ErrorResult(tokens)
    /\ errLoc' = ErrorLocation(cur)
    /\ UNCHANGED <<source, cur, tokens, li, last, options, lm>>

\* Line 92: the cursor is at the end of the source
LexReturn ==
    /\ pc = "scan"
    /\ li = 1
    /\ ~(cur.pointer < Len(source))
    /\ pc' = "done"
    /\ ret' = tokens
    /\ UNCHANGED <<source, cur, tokens, li, errLoc, last, options, lm>>

\* One iteration of the loop of longestMatch
LongestMatchStep ==
    /\ pc = "lm"
    /\ ~lm.brk /\ ~lm.panic
    /\ lm.pointer < Len(source)
    /\ lm' = LMIter(source, cur, options, lm)
    /\ UNCHANGED <<source, cur, tokens, li, pc, ret, errLoc, last, options>>

\* return match
LongestMatchReturn ==
    /\ pc = "lm"
    /\ lm.brk \/ lm.panic \/ ~(lm.pointer < Len(source))
    /\ pc' = "lm_done"
    /\ UNCHANGED <<source, cur, tokens, li, ret, errLoc, last, options, lm>>

Next ==
    \/ TryKeyword
    \/ TrySymbol
    \/ TryString
    \/ TryNumeric
    \/ TryIdentifier
    \/ LexError
    \/ LexReturn
    \/ LongestMatchStep
    \/ LongestMatchReturn

Spec == Init /\ [][Next]_vars

\* Lex runs only, on the short sources, the examples and the well-formed
\* sources; the program runs on while it can: lex is one sequential loop
InitShort ==
    /\ InitLex
    /\ Len(source) <= MaxLiveLen \/ source \in Examples \cup WellFormedSources

NextLex ==
    \/ TryKeyword
    \/ TrySymbol
    \/ TryString
    \/ TryNumeric
    \/ TryIdentifier
    \/ LexError
    \/ LexReturn

FairSpec == InitShort /\ [][NextLex]_vars /\ WF_vars(NextLex)

----------------------------------------------------------------------------
(* Reference definitions used to state the properties.  They are written  *)
(* from the meaning of the property, not from the scanners above.          *)

WhitespaceBytes == {" ", "\t", "\n"}
LetterBytes == Range(UpperLetters) \cup Range(LowerLetters)
DigitBytes == {"0","1","2","3","4","5","6","7","8","9"}

\* a and b are the same byte, or the two cases of one letter
SameLetter(a, b) ==
    a = b \/ \E i \in 1..26 : {a, b} = {UpperLetters[i], LowerLetters[i]}

\* t is s with every upper-case letter replaced by its lower-case letter
IsLowerOf(t, s) ==
    /\ Len(t) = Len(s)
    /\ \A i \in 1..Len(s) : SameLetter(t[i], s[i]) /\ t[i] \notin Range(UpperLetters)

\* The (0-based line, 0-based column) of the byte at offset p of src
LineOf(src, p) == Cardinality({i \in 1..p : src[i] = "\n"})
ColumnOf(src, p) ==
    LET nl == {i \in 1..p : src[i] = "\n"}
    IN  IF nl = {} THEN p ELSE p - (CHOOSE i \in nl : \A j \in nl : j <= i)

\* The scanner application recorded in last
Called(name) == last.lexer = name
Returned(name) == last.lexer = name /\ last.ok
Finished == pc \in {"done", "error", "panic"}

\* The (value, kind) pairs of a token sequence
ValueKinds(toks) == [i \in 1..Len(toks) |-> <<toks[i].Value, toks[i].Kind>>]
Values(toks) == [i \in 1..Len(toks) |-> toks[i].Value]

RECURSIVE CloseIndex(_, _, _)
\* The offset of the first delimiter d at or after q that is not half of a doubled
\* delimiter, or -1
CloseIndex(src, q, d) ==
    IF q >= Len(src) THEN -1
    ELSE IF At(src, q) # d THEN CloseIndex(src, q + 1, d)
    ELSE IF q + 1 < Len(src) /\ At(src, q + 1) = d THEN CloseIndex(src, q + 2, d)
    ELSE q

RECURSIVE Unescaped(_, _, _, _)
\* The bytes of src from q up to close, each doubled delimiter d read as one d
Unescaped(src, q, close, d) ==
    IF q >= close THEN <<>>
    ELSE IF At(src, q) = d THEN <<d>> \o Unescaped(src, q + 2, close, d)
    ELSE <<At(src, q)>> \o Unescaped(src, q + 1, close, d)

----------------------------------------------------------------------------
\* C1: every input made only of well-formed tokens separated by single spaces
\* lexes without error; an input with a properly terminated quoted string or
\* quoted identifier never ends in the error state.
C1_WellFormedInputLexes ==
    (source \in WellFormedSources /\ Finished) => pc = "done"

\* C2: in the delimited scan a doubled delimiter contributes exactly one
\* delimiter byte to the token value: the value of a String token is the quoted
\* region with every '' read as '  ('it''s' gives it's, 4 bytes).
C2_DoubledDelimiterIsOneByte ==
    Returned("lexString") =>
        LET open == last.ic.pointer
            close == CloseIndex(source, open + 1, "'")
        IN  /\ Len(last.token) = 1
            /\ last.token[1].Kind = StringKind
            /\ last.token[1].Value = Unescaped(source, open + 1, close, "'")

\* The candidates of opts that match src at offset p, letter case ignored
MatchingCandidates(src, p, opts) ==
    {o \in Range(opts) :
        /\ p + Len(o) <= Len(src)
        /\ \A i \in 1..Len(o) : SameLetter(src[p + i], o[i])}

\* The longest of them, or the empty string
LongestCandidate(src, p, opts) ==
    LET ms == MatchingCandidates(src, p, opts)
    IN  IF ms = {} THEN <<>>
        ELSE CHOOSE o \in ms : \A o2 \in ms : Len(o2) <= Len(o)

\* C3: longestMatch returns the longest candidate that matches the source at the
\* start position, letter case ignored, in the candidate's spelling, or the empty
\* string when none matches; lexing into (in any letter case) gives exactly one
\* Keyword token with value into.
C3_LongestMatchIsLongest ==
    /\ pc = "lm_done" =>
          /\ ~lm.panic
          /\ lm.match = LongestCandidate(source, cur.pointer, options)
    /\ (Finished /\ IsLowerOf(IntoKeyword, source)) =>
          /\ pc = "done"
          /\ ValueKinds(ret) = << <<IntoKeyword, KeywordKind>> >>

C3_Witness ==
    /\ pc = "lm_done"
    /\ options = <<IntKeyword, IntoKeyword>>
    /\ source = <<"i", "N", "t", "o">>
    /\ cur.pointer = 0
    /\ lm.match = IntoKeyword

\* C4: a double-quoted region matched by the identifier scanner is returned as an
\* Identifier token whose value is the bytes between the quotes, case preserved.
C4_QuotedIdentifierKind ==
    (Returned("lexIdentifier") /\ At(source, last.ic.pointer) = "\"") =>
        LET open == last.ic.pointer
            close == CloseIndex(source, open + 1, "\"")
        IN  /\ Len(last.token) = 1
            /\ last.token[1].Kind = IdentifierKind
            /\ last.token[1].Value = Unescaped(source, open + 1, close, "\"")

IdentifierBytes == LetterBytes \cup DigitBytes \cup {"$", "_"}

RECURSIVE RunEnd(_, _, _)
\* The offset just past the maximal run of bytes of set from offset q
RunEnd(src, q, set) ==
    IF q < Len(src) /\ At(src, q) \in set THEN RunEnd(src, q + 1, set) ELSE q

\* C5: on an unquoted position the identifier scanner fails unless the first byte
\* is an ASCII letter; otherwise it returns an Identifier token whose value is the
\* maximal run of letters, digits, $ and _ in lower case, with pointer and column
\* advanced by the length of the run; lexing Foo gives Identifier foo.
C5_BareIdentifier ==
    /\ (Called("lexIdentifier") /\ At(source, last.ic.pointer) # "\"") =>
          LET p == last.ic.pointer
              q == RunEnd(source, p, IdentifierBytes)
          IN  IF At(source, p) \notin LetterBytes
              THEN ~last.ok /\ last.token = <<>> /\ last.cur = last.ic
              ELSE /\ last.ok
                   /\ Len(last.token) = 1
                   /\ last.token[1].Kind = IdentifierKind
                   /\ IsLowerOf(last.token[1].Value, Slice(source, p, q))
                   /\ last.cur.pointer = q
                   /\ last.cur.loc.Col = last.ic.loc.Col + (q - p)
                   /\ last.cur.loc.Line = last.ic.loc.Line
                   /\ cur = last.cur
    /\ (Finished /\ source = <<"F", "o", "o">>) =>
          /\ pc = "done"
          /\ ValueKinds(ret) = << << <<"f", "o", "o">>, IdentifierKind >> >>

C5_Witness ==
    /\ Returned("lexIdentifier")
    /\ last.ic.pointer = 0
    /\ last.token[1].Value = <<"f", "_", "1", "$", "z">>
    /\ last.cur.pointer = 5
    /\ last.cur.loc.Col = 5

\* C6: when a single-quoted string has no closing quote the string scanner
\* reports no match and lex fails with an error whose (line, column) is the
\* location of the opening quote (both counted from 0, as Location counts them).
C6_UnterminatedStringLocation ==
    LET quotes == {i \in 1..Len(source) : source[i] = "'"}
        unterminated == quotes = {cur.pointer + 1}
    IN  /\ (AtLexer(3) /\ unterminated) => ~lexString(source, cur).ok
        /\ (pc = "error" /\ unterminated) =>
              errLoc = <<LineOf(source, cur.pointer), ColumnOf(source, cur.pointer)>>

RECURSIVE LiteralEnd(_, _, _)
\* The offset just past the numeric literal that extends to offset q: digits,
\* periods, exponent markers, and a sign directly after an exponent marker
LiteralEnd(src, q, afterExp) ==
    IF q >= Len(src) THEN q
    ELSE IF At(src, q) \in DigitBytes \cup {".", "e"}
    THEN LiteralEnd(src, q + 1, At(src, q) = "e")
    ELSE IF afterExp /\ At(src, q) \in {"+", "-"}
    THEN LiteralEnd(src, q + 1, FALSE)
    ELSE q

\* The literal src[p:q] has a second period, a period after an exponent marker, a
\* second exponent marker, or an exponent marker as the last byte of src
Malformed(src, p, q) ==
    LET periods == {i \in p..(q - 1) : At(src, i) = "."}
        exps == {i \in p..(q - 1) : At(src, i) = "e"}
    IN  \/ Cardinality(periods) >= 2
        \/ Cardinality(exps) >= 2
        \/ \E i \in exps, j \in periods : j > i
        \/ Len(src) - 1 \in exps

C8_WhitespaceOnly ==
    /\ (Finished /\ \A i \in 1..Len(source) : source[i] \in WhitespaceBytes) =>
          /\ pc = "done"
          /\ ret = <<>>
          /\ cur.pointer = Len(source)
          /\ cur.loc = [Line |-> LineOf(source, Len(source)),
                        Col |-> ColumnOf(source, Len(source))]
    /\ (Returned("lexSymbol") /\ At(source, last.ic.pointer) = "\n") =>
          /\ last.token = <<>>
          /\ last.cur = [pointer |-> last.ic.pointer + 1,
                         loc |-> [Line |-> last.ic.loc.Line + 1, Col |-> 0]]
          /\ cur = last.cur
    /\ (Returned("lexSymbol") /\ At(source, last.ic.pointer) \in {" ", "\t"}) =>
          /\ last.token = <<>>
          /\ last.cur = [pointer |-> last.ic.pointer + 1,
                         loc |-> [Line |-> last.ic.loc.Line,
                                  Col |-> last.ic.loc.Col + 1]]
          /\ cur = last.cur

C8_Witness ==
    /\ pc = "done"
    /\ source = <<" ", "\t", "\n", " ", "\n", "\t">>
    /\ ret = <<>>
    /\ cur.loc = [Line |-> 2, Col |-> 1]

\* C9: when lex succeeds, lexing the produced token values joined by single
\* spaces succeeds too and gives the same (value, kind) pairs in the same order.
C9_Idempotent ==
    pc = "done" =>
        LET again == lex(JoinSpaces(Values(ret)))
        IN  /\ again.ok
            /\ ValueKinds(again.tokens) = ValueKinds(ret)

\* C10: when lex fails the error carries the 1-based line and the 0-based column
\* of the first unconsumed byte.
C10_ErrorLocation ==
    pc = "error" =>
        errLoc = <<LineOf(source, cur.pointer) + 1, ColumnOf(source, cur.pointer)>>

\* C11: lexing is all-or-nothing: when no scanner matches at a position lex
\* returns an error and no token sequence, however many tokens came before.
C11_AllOrNothing ==
    [][(pc = "scan" /\ li = Len(lexers) + 1) =>
          (pc' = "error" /\ ret' = <<>> /\ errLoc' # <<>>)]_vars

C11_Witness ==
    /\ pc = "error"
    /\ Len(tokens) >= 2
    /\ ret = <<>>

\* C12: the cursor pointer never decreases during a lex pass, and every scanner
\* that matches returns a pointer strictly greater than the one it was given.
C12_PointerAdvances ==
    /\ [](Returned(last.lexer) => last.cur.pointer > last.ic.pointer)
    /\ [][cur'.pointer >= cur.pointer]_vars

C12_Witness ==
    /\ Returned("lexNumeric")
    /\ last.ic.pointer > 0
    /\ last.cur.pointer = last.ic.pointer + 1
    /\ cur = last.cur

\* C13: every byte is consumed by exactly one scanner application that matched;
\* the closing delimiter of a quoted region is consumed by the scan that matched
\* the region, so the cursor a delimited scan returns points just past the
\* closing delimiter and the next scan never starts on it.
C13_ClosingDelimiterConsumed ==
    \A d \in {"'", "\""} :
        (last.ok /\ last.lexer \in {"lexString", "lexIdentifier"}
                 /\ At(source, last.ic.pointer) = d) =>
            /\ last.cur.pointer = CloseIndex(source, last.ic.pointer + 1, d) + 1
            /\ cur = last.cur

\* C14: after every scanner application that matched, the cursor's line and
\* column are exact: the line has grown by the number of newline bytes consumed
\* and the column is the number of bytes consumed since the last consumed
\* newline (or added to the column of the start, when none was consumed).
C14_LocationExact ==
    last.ok =>
        LET from == last.ic.pointer
            to == last.cur.pointer
            nl == {i \in from..(to - 1) : At(source, i) = "\n"}
        IN  /\ last.cur.loc.Line = last.ic.loc.Line + Cardinality(nl)
            /\ last.cur.loc.Col =
                  IF nl = {} THEN last.ic.loc.Col + (to - from)
                  ELSE to - 1 - (CHOOSE i \in nl : \A j \in nl : j <= i)

\* The index in lexers of the scanner called name
LexerIndex(name) == CHOOSE i \in 1..Len(lexers) : lexers[i] = name

\* C15: a scanner that reports no match returns no token and exactly the cursor
\* it was given, and the failed attempt leaves the driver's cursor and token
\* sequence unchanged: the next scanner in the list starts from the same position.
C15_FailedScanChangesNothing ==
    [][(last' # last /\ ~last'.ok) =>
          /\ last'.ic = cur
          /\ last'.cur = cur
          /\ last'.token = <<>>
          /\ cur' = cur
          /\ tokens' = tokens
          /\ li' = LexerIndex(last'.lexer) + 1]_vars

C15_Witness ==
    /\ Called("lexNumeric")
    /\ ~last.ok
    /\ last.ic.pointer > 0
    /\ At(source, last.ic.pointer) = "1"
    /\ Len(tokens) > 0
    /\ li = 5

\* C16: the token (or whitespace skip) taken at a position is the result of the
\* first scanner that matches there in the order keyword, symbol, string,
\* numeric, identifier; selection lexes as Keyword select, Identifier ion.
C16_FirstScannerWins ==
    /\ last.ok =>
          /\ \A j \in 1..(LexerIndex(last.lexer) - 1) :
                ~CallLexer(j, source, last.ic).ok
          /\ LET r == CallLexer(LexerIndex(last.lexer), source, last.ic)
             IN  r.ok /\ r.cur = cur /\ r.token = last.token
          /\ li = 1
    /\ (Finished /\ source = <<"s","e","l","e","c","t","i","o","n">>) =>
          /\ pc = "done"
          /\ ValueKinds(ret) = << <<SelectKeyword, KeywordKind>>,
                                  << <<"i","o","n">>, IdentifierKind >> >>

C16_Witness ==
    /\ pc = "done"
    /\ source = <<"s","e","l","e","c","t","i","o","n">>
    /\ Len(ret) = 2
    /\ Returned("lexIdentifier")

RECURSIVE OutsideQuotes(_, _, _)
\* The byte at offset i of src lies outside every quoted region, the regions
\* read from offset q on (q itself outside); an unterminated region runs to the
\* end of src
OutsideQuotes(src, q, i) ==
    IF q >= i THEN q = i
    ELSE IF At(src, q) \in {"'", "\""}
    THEN LET close == CloseIndex(src, q + 1, At(src, q))
         IN  close # -1 /\ close < i /\ OutsideQuotes(src, close + 1, i)
    ELSE OutsideQuotes(src, q + 1, i)

\* C17: the declared but inactive items are never produced: no token has kind
\* Boolean, no Keyword token has value as or int, no Symbol token has value ||;
\* the words as and int lex as Identifier tokens, and a | outside quotes makes
\* lex fail.
C17_InactiveItemsNeverProduced ==
    /\ \A i \in 1..Len(tokens) :
          /\ tokens[i].Kind # BoolKind
          /\ tokens[i].Kind = KeywordKind => tokens[i].Value \notin {AsKeyword, IntKeyword}
          /\ tokens[i].Kind = SymbolKind => tokens[i].Value # ConcatSymbol
    /\ (Finished /\ source \in {AsKeyword, IntKeyword}) =>
          /\ pc = "done"
          /\ ValueKinds(ret) = << <<source, IdentifierKind>> >>
    /\ (Finished /\ \E i \in 0..(Len(source) - 1) :
                        At(source, i) = "|" /\ OutsideQuotes(source, 0, i)) =>
          pc = "error"

C17_Witness ==
    /\ pc = "done"
    /\ source = <<"i","n","t"," ","a","s">>
    /\ ValueKinds(ret) = << <<IntKeyword, IdentifierKind>>, <<AsKeyword, IdentifierKind>> >>

\* C18: in every Numeric token the scanner returns, each exponent marker e, with
\* its optional sign, is followed by at least one digit.
C18_ExponentHasDigits ==
    Returned("lexNumeric") =>
        LET v == last.token[1].Value
        IN  \A i \in 1..Len(v) :
                v[i] = "e" =>
                    \/ (i + 1 <= Len(v) /\ v[i + 1] \in DigitBytes)
                    \/ (i + 2 <= Len(v) /\ v[i + 1] \in {"+", "-"}
                                        /\ v[i + 2] \in DigitBytes)

\* C19: index safety: the cursor pointer never exceeds len(source), no scanner
\* reads the source at or past len(source) (no run panics; the byte after an
\* exponent marker that the numeric scanner reads exists), and in longestMatch
\* every candidate not yet eliminated after k bytes has at least k bytes.
C19_IndexSafety ==
    /\ pc # "panic"
    /\ cur.pointer <= Len(source)
    /\ last.cur.pointer <= Len(source)
    /\ Returned("lexNumeric") =>
          \A i \in last.ic.pointer..(last.cur.pointer - 1) :
              At(source, i) = "e" => i + 1 < Len(source)
    /\ pc \in {"lm", "lm_done"} =>
          /\ ~lm.panic
          /\ lm.pointer <= Len(source)
          /\ \A i \in 1..Len(options) :
                (\A j \in 1..Len(lm.skipList) : lm.skipList[j] # i) =>
                    Len(options[i]) >= lm.pointer - cur.pointer

C19_Witness ==
    /\ pc = "lm"
    /\ options = <<IntKeyword, IntoKeyword>>
    /\ lm.pointer - cur.pointer = 3
    /\ lm.skipList = <<1>>
    /\ lm.match = IntKeyword

\* C20: for every input lex eventually terminates, in the success state with
\* the cursor pointer equal to len(source) or in the error state.
C20_Terminates ==
    /\ [](pc = "done" => cur.pointer = Len(source))
    /\ (pc = "scan") ~> (pc \in {"done", "error"})

C20_Witness ==
    /\ pc = "done"
    /\ Len(ret) >= 8
    /\ cur.pointer = Len(source)

====
